---- MODULE Spec2Model ----
(***************************************************************************)
(* Clarke-Wright savings routing of src/routes/auth.js                     *)
(* (createOptimization, clarkeWrightAlgorithm, calculateDistance).         *)
(*                                                                         *)
(* One behaviour is one createOptimization request.  The two forEach loops *)
(* of clarkeWrightAlgorithm (initial routes, merges) are unrolled into one *)
(* step per iteration, so that "after every merge step" is a state.        *)
(*                                                                         *)
(* Locations lie on the equator (latitude 0) at whole-degree longitudes.   *)
(* There the Haversine formula of calculateDistance reduces to             *)
(* R * |dLon| * PI / 180, so distances are kept as whole numbers of the    *)
(* unit R*PI/180 km.  Mongo ObjectIds are modelled by the position of the  *)
(* document in the query result.  Sequences are 1-based; vehicleIndex      *)
(* keeps the 0-based value of the source.  The display names of locations  *)
(* and vehicles, which no step reads, are left out of the records.         *)
(***************************************************************************)
EXTENDS Integers, Sequences, FiniteSets

VARIABLES locations, vehicles, pc, savings, availableVehicles, vehicleIndex,
          routes, locCursor, savCursor, totalDistance, response

vars == <<locations, vehicles, pc, savings, availableVehicles, vehicleIndex,
          routes, locCursor, savCursor, totalDistance, response>>

(* ------------------------------ bounds --------------------------------- *)

MaxLocations == 4

MaxLon == 1

MaxDemand == 2

MaxCapacity == 3

MaxTypes == 2

MaxCount == 2

(* The two scenarios of the specification: two stops of demand 5, and a    *)
(* fleet whose vehicles all have capacity 10 or all have capacity 4.       *)
ScenarioDemands == {5}

ScenarioCapacities == {4, 10}

ScenarioLons == {0, 1, 2}

(* ------------------------------ helpers -------------------------------- *)

Abs(x) == IF x < 0 THEN -x ELSE x

Min(a, b) == IF a < b THEN a ELSE b

Max(a, b) == IF a > b THEN a ELSE b

RECURSIVE SelectSeqOf(_, _)
SelectSeqOf(s, keep) ==
  IF s = <<>> THEN <<>>
  ELSE IF Head(s) \in keep THEN <<Head(s)>> \o SelectSeqOf(Tail(s), keep)
       ELSE SelectSeqOf(Tail(s), keep)

(* ------------------------------ inputs --------------------------------- *)

(* Location documents returned by Location.find; flag = 0 flags none as    *)
(* depot, flag = k flags the k-th document.                                *)
MakeLocations(n, lons, demands, flag) ==
  [i \in 1..n |-> [_id |-> i, latitude |-> 0, longitude |-> lons[i],
                   demand |-> demands[i], isDepot |-> (i = flag)]]

(* The document line 83 selects under that flag.                           *)
DepotIndex(flag) == IF flag = 0 THEN 1 ELSE flag

(* Vehicle documents returned by Vehicle.find (models/Vehicle.js).         *)
MakeVehicles(m, caps, counts) ==
  [i \in 1..m |-> [_id |-> i, capacity |-> caps[i], count |-> counts[i]]]

(* line 83: the first location flagged isDepot, else the first location    *)
depot ==
  IF \E i \in 1..Len(locations) : locations[i].isDepot
  THEN locations[CHOOSE i \in 1..Len(locations) :
                    /\ locations[i].isDepot
                    /\ \A j \in 1..(i - 1) : ~locations[j].isDepot]
  ELSE locations[1]

(* lines 340-354, on the equator, in units of R*PI/180 km                  *)
calculateDistance(lat1, lon1, lat2, lon2) == Abs(lon2 - lon1)

(* lines 138-147: the table distances[a][b], keyed by location _id         *)
distances(a, b) ==
  calculateDistance(locations[a].latitude, locations[a].longitude,
                    locations[b].latitude, locations[b].longitude)

(* lines 175-177 *)
nonDepotLocations ==
  SelectSeqOf(locations, {l \in {locations[i] : i \in 1..Len(locations)} :
                            l._id # depot._id})

(* ------------------------- savings calculator -------------------------- *)

(* lines 155-156 visiting each unordered pair once                         *)
pairSkippedUnordered(loc1, loc2) ==
  loc2._id = depot._id \/ loc1._id >= loc2._id

(* lines 155-156: the inner loop skips the depot and loc1 itself           *)
pairSkipped(loc1, loc2) ==
  loc2._id = depot._id \/ loc1._id = loc2._id

(* lines 158-166 *)
savingEntry(loc1, loc2) ==
  [loc1 |-> loc1, loc2 |-> loc2,
   saving |-> distances(depot._id, loc1._id) + distances(depot._id, loc2._id)
              - distances(loc1._id, loc2._id)]

RECURSIVE savingsInner(_, _)
savingsInner(i, j) ==
  IF j > Len(locations) THEN <<>>
  ELSE (IF pairSkipped(locations[i], locations[j]) THEN <<>>
        ELSE <<savingEntry(locations[i], locations[j])>>)
       \o savingsInner(i, j + 1)

(* lines 150-168: outer loop over loc1, skipping the depot (line 152)      *)
RECURSIVE savingsOuter(_)
savingsOuter(i) ==
  IF i > Len(locations) THEN <<>>
  ELSE (IF locations[i]._id = depot._id THEN <<>> ELSE savingsInner(i, 1))
       \o savingsOuter(i + 1)

(* Array.prototype.sort with (a, b) => b.saving - a.saving: descending and *)
(* stable, so an entry goes behind every entry whose saving is not smaller *)
insertDescending(sorted, e) ==
  LET before == {k \in 1..Len(sorted) : sorted[k].saving >= e.saving}
      n == Cardinality(before)
  IN  SubSeq(sorted, 1, n) \o <<e>> \o SubSeq(sorted, n + 1, Len(sorted))

RECURSIVE sortFrom(_, _)
sortFrom(sorted, rest) ==
  IF rest = <<>> THEN sorted
  ELSE sortFrom(insertDescending(sorted, Head(rest)), Tail(rest))

(* line 171 *)
sortSavings(s) == sortFrom(<<>>, s)

(* --------------------------- fleet allocator --------------------------- *)

RECURSIVE repeatVehicle(_, _)
repeatVehicle(vehicle, n) ==
  IF n = 0 THEN <<>>
  ELSE <<[_id |-> vehicle._id, capacity |-> vehicle.capacity,
          count |-> vehicle.count, remainingCapacity |-> vehicle.capacity]>>
       \o repeatVehicle(vehicle, n - 1)

(* lines 181-190: every instance of a type carries the type's _id          *)
RECURSIVE expandFleet(_)
expandFleet(vs) ==
  IF vs = <<>> THEN <<>>
  ELSE repeatVehicle(Head(vs), Head(vs).count) \o expandFleet(Tail(vs))

(* ---------------------------- route builder ---------------------------- *)

(* lines 205-228 *)
makeStop(location, order) ==
  [locationId |-> location._id, latitude |-> location.latitude,
   longitude |-> location.longitude, demand |-> location.demand,
   order |-> order]

(* line 199 with one unit of slack                                         *)
demandExceedsSlack(location, vehicle) ==
  location.demand > vehicle.remainingCapacity + 1

(* line 199 with the operands exchanged                                    *)
demandExceedsSwapped(location, vehicle) ==
  vehicle.remainingCapacity > location.demand

(* line 199: the stop is skipped when this holds                           *)
demandExceeds(location, vehicle) ==
  location.demand > vehicle.remainingCapacity

(* lines 201-232.  inst is a history field: the position in                *)
(* availableVehicles of the instance held in `vehicle` at line 196; the    *)
(* source keeps only that instance's _id in the route.                     *)
singletonRoute(location, vehicle, instanceIndex) ==
  [vehicleId |-> vehicle._id,
   inst |-> instanceIndex,
   stops |-> <<makeStop(depot, 0), makeStop(location, 1), makeStop(depot, 2)>>,
   totalDistance |-> distances(depot._id, location._id) * 2,
   totalCapacity |-> location.demand]

(* line 236 moved ahead of the returns: the cursor moves with every stop   *)
nextVehicleIndexEveryStop(index, created) ==
  index + 1

(* lines 194 and 236: the cursor moves only when a route was created       *)
nextVehicleIndex(index, created) ==
  IF created THEN index + 1 ELSE index

(* ----------------------------- route merger ---------------------------- *)

(* lines 250-257: route.stops.some(stop => stop.locationId === id)         *)
containsLoc(route, id) ==
  \E k \in 1..Len(route.stops) : route.stops[k].locationId = id

(* lines 246-263: index of the first route containing the location, 0 if   *)
(* there is none                                                           *)
findRoute(rs, id) ==
  IF \E i \in 1..Len(rs) : containsLoc(rs[i], id)
  THEN CHOOSE i \in 1..Len(rs) :
         /\ containsLoc(rs[i], id)
         /\ \A j \in 1..(i - 1) : ~containsLoc(rs[j], id)
  ELSE 0

(* lines 273-275: availableVehicles.find by _id, 0 if there is none        *)
findVehicle(pool, id) ==
  IF \E i \in 1..Len(pool) : pool[i]._id = id
  THEN CHOOSE i \in 1..Len(pool) :
         /\ pool[i]._id = id
         /\ \A j \in 1..(i - 1) : pool[j]._id # id
  ELSE 0

(* the check of line 277 with one unit of slack                            *)
capacityExceededSlack(totalDemand, vehicle) ==
  totalDemand > vehicle.capacity + 1

(* the check of line 277 refusing an exact fit                             *)
capacityExceededOrFull(totalDemand, vehicle) ==
  totalDemand >= vehicle.capacity

(* line 277 *)
capacityExceeded(totalDemand, vehicle) ==
  totalDemand > vehicle.capacity

(* stops.slice(1, -1) *)
innerStops(stops) == SubSeq(stops, 2, Len(stops) - 1)

(* lines 280-309 with route1 and route2 copied without slice(1, -1)        *)
mergeStopsUnsliced(stops1, stops2) ==
  LET all == SubSeq(stops1, 1, Len(stops1) - 1) \o stops2
  IN  [k \in 1..Len(all) |-> [all[k] EXCEPT !.order = k - 1]]

(* lines 280-309 *)
mergeStops(stops1, stops2) ==
  LET all == <<stops1[1]>> \o innerStops(stops1) \o innerStops(stops2)
             \o <<stops1[1]>>
  IN  [k \in 1..Len(all) |-> [all[k] EXCEPT !.order = k - 1]]

(* lines 312-317 *)
RECURSIVE pathDistance(_)
pathDistance(stops) ==
  IF Len(stops) < 2 THEN 0
  ELSE distances(stops[1].locationId, stops[2].locationId)
       + pathDistance(Tail(stops))

(* lines 320-326 *)
mergedRoute(route1, route2) ==
  LET newStops == mergeStops(route1.stops, route2.stops)
  IN  [vehicleId |-> route1.vehicleId,
       inst |-> route1.inst,
       stops |-> newStops,
       totalDistance |-> pathDistance(newStops),
       totalCapacity |-> route1.totalCapacity + route2.totalCapacity]

(* lines 332-333 without the first splice: route2 stays in the list        *)
spliceMergedKeepsBoth(rs, index1, index2, merged) ==
  [rs EXCEPT ![Min(index1, index2)] = merged]

(* lines 332-333: splice(max, 1) then splice(min, 1, mergedRoute)          *)
spliceMerged(rs, index1, index2, merged) ==
  LET hi == Max(index1, index2)
      lo == Min(index1, index2)
      cut == SubSeq(rs, 1, hi - 1) \o SubSeq(rs, hi + 1, Len(rs))
  IN  [cut EXCEPT ![lo] = merged]

(* lines 89-92 of createOptimization *)
RECURSIVE sumDistance(_)
sumDistance(rs) ==
  IF rs = <<>> THEN 0 ELSE Head(rs).totalDistance + sumDistance(Tail(rs))

(* ------------------------------- requests ------------------------------ *)

Idle ==
  /\ pc = "request"
  /\ savings = <<>>
  /\ availableVehicles = <<>>
  /\ vehicleIndex = 0
  /\ routes = <<>>
  /\ locCursor = 1
  /\ savCursor = 1
  /\ totalDistance = 0
  /\ response = "none"

(* Any request within the bounds: the documents the two find calls of      *)
(* lines 68-76 return.  The depot is the first document, unflagged, or the *)
(* last, flagged; its own demand is 0.                                     *)
GeneralInit ==
  /\ \E n \in 0..MaxLocations :
       \E lons \in [1..n -> 0..MaxLon] :
         \E demands \in [1..n -> 0..MaxDemand] :
           \E flag \in {0, n} :
             /\ n > 0 => demands[DepotIndex(flag)] = 0
             /\ locations = MakeLocations(n, lons, demands, flag)
  /\ \E m \in 0..MaxTypes :
       \E caps \in [1..m -> 1..MaxCapacity] :
         \E counts \in [1..m -> 1..MaxCount] :
           vehicles = MakeVehicles(m, caps, counts)
  /\ Idle

(* The requests of the two scenarios: a depot of demand 0 and two stops of *)
(* demand 5, vehicles all of capacity 10 or all of capacity 4.             *)
ScenarioInit ==
  /\ \E lons \in [1..3 -> ScenarioLons] :
       \E d \in ScenarioDemands :
         \E flag \in 0..3 :
           locations =
             MakeLocations(3, lons,
                           [i \in 1..3 |->
                              IF i = DepotIndex(flag) THEN 0 ELSE d],
                           flag)
  /\ \E m \in 1..MaxTypes :
       \E c \in ScenarioCapacities :
         \E counts \in [1..m -> 1..MaxCount] :
           vehicles = MakeVehicles(m, [i \in 1..m |-> c], counts)
  /\ Idle

Init == GeneralInit \/ ScenarioInit

(* -------------------------------- actions ------------------------------ *)

(* lines 78-80: nothing found, status 400                                  *)
Reject ==
  /\ pc = "request"
  /\ (Len(vehicles) = 0 \/ Len(locations) = 0)
  /\ response' = "400"
  /\ pc' = "rejected"
  /\ UNCHANGED <<locations, vehicles, savings, availableVehicles,
                 vehicleIndex, routes, locCursor, savCursor, totalDistance>>

(* lines 83-190: depot, distance table, sorted savings, expanded fleet     *)
Prepare ==
  /\ pc = "request"
  /\ ~(Len(vehicles) = 0 \/ Len(locations) = 0)
  /\ savings' = sortSavings(savingsOuter(1))
  /\ availableVehicles' = expandFleet(vehicles)
  /\ pc' = IF nonDepotLocations = <<>> THEN "return" ELSE "build"
  /\ UNCHANGED <<locations, vehicles, vehicleIndex, routes, locCursor,
                 savCursor, totalDistance, response>>

(* lines 193-237: one iteration of nonDepotLocations.forEach               *)
BuildStep ==
  /\ pc = "build"
  /\ LET location == nonDepotLocations[locCursor]
         hasVehicle == vehicleIndex < Len(availableVehicles)
         vehicle == availableVehicles[vehicleIndex + 1]
         created == hasVehicle /\ ~demandExceeds(location, vehicle)
     IN  /\ routes' = IF created
                      THEN Append(routes,
                                  singletonRoute(location, vehicle,
                                                 vehicleIndex + 1))
                      ELSE routes
         /\ availableVehicles' =
              IF created
              THEN [availableVehicles EXCEPT
                      ![vehicleIndex + 1].remainingCapacity =
                         @ - location.demand]
              ELSE availableVehicles
         /\ vehicleIndex' = nextVehicleIndex(vehicleIndex, created)
  /\ locCursor' = locCursor + 1
  /\ pc' = IF locCursor < Len(nonDepotLocations) THEN "build"
           ELSE IF savings = <<>> THEN "return" ELSE "merge"
  /\ UNCHANGED <<locations, vehicles, savings, savCursor, totalDistance,
                 response>>

(* lines 240-334: one iteration of savings.forEach                         *)
MergeStep ==
  /\ pc = "merge"
  /\ LET saving == savings[savCursor]
         index1 == findRoute(routes, saving.loc1._id)
         index2 == findRoute(routes, saving.loc2._id)
         found == index1 # 0 /\ index2 # 0 /\ index1 # index2
         route1 == routes[index1]
         route2 == routes[index2]
         totalDemand == route1.totalCapacity + route2.totalCapacity
         v == findVehicle(availableVehicles, route1.vehicleId)
         merge == /\ found
                  /\ v # 0
                  /\ ~capacityExceeded(totalDemand, availableVehicles[v])
     IN  IF merge
         THEN /\ availableVehicles' =
                   [availableVehicles EXCEPT
                      ![v].remainingCapacity =
                         availableVehicles[v].capacity - totalDemand]
              /\ routes' = spliceMerged(routes, index1, index2,
                                        mergedRoute(route1, route2))
         ELSE UNCHANGED <<availableVehicles, routes>>
  /\ savCursor' = savCursor + 1
  /\ pc' = IF savCursor < Len(savings) THEN "merge" ELSE "return"
  /\ UNCHANGED <<locations, vehicles, savings, vehicleIndex, locCursor,
                 totalDistance, response>>

(* line 336 and lines 88-102: the routes are returned, their distances     *)
(* summed, the optimization answered                                       *)
Return ==
  /\ pc = "return"
  /\ totalDistance' = sumDistance(routes)
  /\ response' = "json"
  /\ pc' = "done"
  /\ UNCHANGED <<locations, vehicles, savings, availableVehicles,
                 vehicleIndex, routes, locCursor, savCursor>>

Next == Reject \/ Prepare \/ BuildStep \/ MergeStep \/ Return

Spec == Init /\ [][Next]_vars

(* ------------------------- vocabulary of the claims -------------------- *)

RouteSet == {routes[i] : i \in 1..Len(routes)}

(* the non-depot stops of a route, as location ids                         *)
innerIds(route) ==
  {route.stops[k].locationId : k \in 2..(Len(route.stops) - 1)}

RoutedStops == UNION {innerIds(r) : r \in RouteSet}

RECURSIVE sumDemand(_)
sumDemand(stops) ==
  IF stops = <<>> THEN 0 ELSE Head(stops).demand + sumDemand(Tail(stops))

(* the vehicle instance the Route Builder bound the route to               *)
boundVehicle(route) == availableVehicles[route.inst]

Accepted == pc \in {"build", "merge", "return", "done"}

(* initial route construction has ended                                    *)
Built == pc \in {"merge", "return", "done"}

(* the state right after initial route construction, before any merge step *)
FreshlyBuilt ==
  \/ pc = "merge" /\ savCursor = 1
  \/ pc \in {"return", "done"} /\ savings = <<>>

(* position of a location in nonDepotLocations, 0 for the depot            *)
stopPosition(id) ==
  IF \E k \in 1..Len(nonDepotLocations) : nonDepotLocations[k]._id = id
  THEN CHOOSE k \in 1..Len(nonDepotLocations) : nonDepotLocations[k]._id = id
  ELSE 0

(* ------------------------------- claims -------------------------------- *)

(* C1: in every state, every route's totalCapacity is the sum of the       *)
(* demands of its non-depot stops and is at most the capacity of the       *)
(* vehicle instance the route is bound to.                                 *)
C1_DemandWithinCapacity ==
  \A r \in RouteSet :
    /\ r.totalCapacity = sumDemand(innerStops(r.stops))
    /\ r.totalCapacity <= boundVehicle(r).capacity

(* a returned merged route that fills its vehicle exactly                  *)
C1_Witness ==
  /\ pc = "done"
  /\ \E r \in RouteSet :
       /\ Len(r.stops) > 3
       /\ r.totalCapacity = boundVehicle(r).capacity

(* C2: in every state, every route has at least three stops, the depot as  *)
(* the first and the last, and no depot strictly between them.             *)
C2_DepotOnlyAtEnds ==
  \A r \in RouteSet :
    /\ Len(r.stops) >= 3
    /\ r.stops[1].locationId = depot._id
    /\ r.stops[Len(r.stops)].locationId = depot._id
    /\ \A k \in 2..(Len(r.stops) - 1) : r.stops[k].locationId # depot._id

(* a route made by merging a merged route                                  *)
C2_Witness ==
  \E r \in RouteSet : Len(r.stops) >= 5

(* the scenario request: exactly two non-depot stops, both of demand 5     *)
TwoStopsOfFive ==
  /\ Len(locations) = 3
  /\ \A k \in 1..Len(nonDepotLocations) : nonDepotLocations[k].demand = 5

(* C3: with two stops of demand 5 and a fleet of one vehicle type of       *)
(* capacity 10 and count 1, the returned result is exactly one route, it   *)
(* visits both stops, and its cumulative demand is 10.                     *)
C3_SingleVehicleMergesBoth ==
  (/\ pc = "done"
   /\ TwoStopsOfFive
   /\ vehicles = <<[_id |-> 1, capacity |-> 10, count |-> 1]>>)
  => /\ Len(routes) = 1
     /\ \A k \in 1..2 : nonDepotLocations[k]._id \in innerIds(routes[1])
     /\ routes[1].totalCapacity = 10

(* the scenario request: every vehicle has capacity 4                      *)
AllCapacityFour ==
  \A i \in 1..Len(vehicles) : vehicles[i].capacity = 4

(* C4, as stated: with two stops of demand 5 and every vehicle of capacity *)
(* 4 no merged route is returned; with two instances available the result  *)
(* is two singleton routes on different instances, one per stop; with one  *)
(* instance it is one singleton route.                                     *)
C4_TwoSingletonsAsStated ==
  (pc = "done" /\ TwoStopsOfFive /\ AllCapacityFour)
  => /\ \A r \in RouteSet : Len(r.stops) = 3
     /\ Len(availableVehicles) >= 2
          => /\ Len(routes) = 2
             /\ routes[1].inst # routes[2].inst
             /\ RoutedStops = {nonDepotLocations[k]._id : k \in 1..2}
     /\ Len(availableVehicles) = 1 => Len(routes) = 1

(* C4, amended: with two stops of demand 5 and every vehicle of capacity 4 *)
(* neither stop fits any vehicle; in every state the route list is empty,  *)
(* whatever the number of vehicle instances, and so is the returned result.*)
C4_NoRouteAtAll ==
  (Accepted /\ TwoStopsOfFive /\ AllCapacityFour)
  => /\ routes = <<>>
     /\ vehicleIndex = 0
     /\ pc = "done" => totalDistance = 0

(* the capacity-4 request answered, with two or more instances on offer    *)
C4_Witness ==
  /\ pc = "done"
  /\ response = "json"
  /\ TwoStopsOfFive
  /\ AllCapacityFour
  /\ Len(availableVehicles) >= 2

(* a stop no vehicle instance of the fleet can carry                       *)
Unroutable(location) ==
  \A i \in 1..Len(vehicles) : location.demand > vehicles[i].capacity

(* C5: a non-depot stop whose demand exceeds the capacity of every vehicle *)
(* instance is in no route in any state; the request is still carried      *)
(* through (each loop step has its element to work on) and answered with   *)
(* the routes, never with an error.                                        *)
C5_UnroutableStopOmitted ==
  Accepted =>
    /\ \A k \in 1..Len(nonDepotLocations) :
         Unroutable(nonDepotLocations[k])
           => nonDepotLocations[k]._id \notin RoutedStops
    /\ pc = "build" => locCursor <= Len(nonDepotLocations)
    /\ pc = "merge" => savCursor <= Len(savings)
    /\ response = (IF pc = "done" THEN "json" ELSE "none")

(* a result that omits an unroutable stop and routes a later stop          *)
C5_Witness ==
  /\ pc = "done"
  /\ response = "json"
  /\ \E k \in 1..Len(nonDepotLocations) :
       /\ Unroutable(nonDepotLocations[k])
       /\ \E j \in (k + 1)..Len(nonDepotLocations) :
            nonDepotLocations[j]._id \in RoutedStops

(* C7, as stated: while the initial routes are the only routes, the k-th   *)
(* non-depot stop, if it has a route, is bound to the k-th instance.       *)
C7_CursorFollowsStopIndex ==
  (pc = "build" \/ FreshlyBuilt)
  => \A r \in RouteSet : r.inst = stopPosition(r.stops[2].locationId)

(* C7, amended: the cursor advances by one only when a stop is given a     *)
(* route; a skipped stop consumes no vehicle position.  While the initial  *)
(* routes are the only routes, the cursor equals the number of routes, the *)
(* k-th route created is bound to the k-th instance, and instances from    *)
(* the cursor on are untouched.                                            *)
C7_CursorFollowsRoutes ==
  (pc = "build" \/ FreshlyBuilt)
  => /\ vehicleIndex = Len(routes)
     /\ \A k \in 1..Len(routes) : routes[k].inst = k
     /\ \A i \in (vehicleIndex + 1)..Len(availableVehicles) :
          availableVehicles[i].remainingCapacity
            = availableVehicles[i].capacity

(* a stop skipped for capacity, and a later stop routed on the instance    *)
(* the skipped stop was refused                                            *)
C7_Witness ==
  /\ FreshlyBuilt
  /\ \E r \in RouteSet :
       /\ stopPosition(r.stops[2].locationId) > r.inst
       /\ \E k \in 1..(stopPosition(r.stops[2].locationId) - 1) :
            /\ nonDepotLocations[k]._id \notin RoutedStops
            /\ nonDepotLocations[k].demand > boundVehicle(r).capacity

(* C8: once the initial routes are built, the instance bound to a route    *)
(* has remainingCapacity = capacity - the route's cumulative demand.       *)
C8_RemainingCapacityTracksRoute ==
  Built =>
    \A r \in RouteSet :
      boundVehicle(r).remainingCapacity
        = boundVehicle(r).capacity - r.totalCapacity

(* the number of non-depot stops of the request                            *)
StopCount == Len(nonDepotLocations)

(* the entries of the savings list for the ordered pair (a, b)             *)
entriesFor(a, b) ==
  {k \in 1..Len(savings) :
     savings[k].loc1._id = a /\ savings[k].loc2._id = b}

StopIds == {nonDepotLocations[k]._id : k \in 1..StopCount}

(* C6, as stated: the savings list has one entry for each unordered pair   *)
(* of distinct non-depot stops, n*(n-1)/2 entries in all.                  *)
C6_OneEntryPerUnorderedPair ==
  Accepted =>
    /\ 2 * Len(savings) = StopCount * (StopCount - 1)
    /\ \A a \in StopIds : \A b \in StopIds \ {a} :
         Cardinality(entriesFor(a, b) \cup entriesFor(b, a)) = 1

(* the savings list holds one entry for each ordered pair of distinct      *)
(* non-depot stops and nothing else, in non-increasing order of saving     *)
SavingsShape ==
  LET ids == StopIds
      n == Cardinality(ids)
  IN  /\ Len(savings) = n * (n - 1)
      /\ \A a \in ids : \A b \in ids \ {a} :
           Cardinality(entriesFor(a, b)) = 1
      /\ \A k \in 1..Len(savings) :
           /\ savings[k].loc1._id \in ids
           /\ savings[k].loc2._id \in ids \ {savings[k].loc1._id}
      /\ \A k \in 1..(Len(savings) - 1) :
           savings[k].saving >= savings[k + 1].saving

(* a merge step merges exactly when the entry's two stops are in two       *)
(* different routes and their combined demand is within the capacity of    *)
(* the vehicle bound to the route of the entry's first stop; the vehicle   *)
(* of the second stop's route is not consulted                             *)
OneSidedMerge ==
  pc = "merge" =>
    LET e == savings[savCursor]
        i1 == findRoute(routes, e.loc1._id)
        i2 == findRoute(routes, e.loc2._id)
    IN  (Len(routes') = Len(routes) - 1)
          <=> /\ i1 # 0
              /\ i2 # 0
              /\ i1 # i2
              /\ routes[i1].totalCapacity + routes[i2].totalCapacity
                   <= boundVehicle(routes[i1]).capacity

(* C6, amended: the savings list of an accepted request has, in every      *)
(* state, exactly one entry for each ORDERED                               *)
(* pair (i, j) of distinct non-depot stops, n*(n-1) entries in all, so     *)
(* each unordered pair is offered to the Route Merger twice, once in each  *)
(* orientation; at each offer the capacity check is made only against the  *)
(* vehicle of the route containing the entry's first stop.                 *)
C6_OneEntryPerOrderedPair ==
  [](Accepted => SavingsShape) /\ [][OneSidedMerge]_vars

(* a merge about to be made on the first stop's vehicle that the second    *)
(* stop's vehicle could not carry                                          *)
C6_Witness ==
  /\ pc = "merge"
  /\ Len(savings) = 6
  /\ LET e == savings[savCursor]
         i1 == findRoute(routes, e.loc1._id)
         i2 == findRoute(routes, e.loc2._id)
     IN  /\ i1 # 0
         /\ i2 # 0
         /\ i1 # i2
         /\ routes[i1].totalCapacity + routes[i2].totalCapacity
              <= boundVehicle(routes[i1]).capacity
         /\ routes[i1].totalCapacity + routes[i2].totalCapacity
              > boundVehicle(routes[i2]).capacity

(* C9: in the returned result no two distinct routes have a combined       *)
(* cumulative demand within the capacity of the vehicle bound to either.   *)
C9_NoFeasibleMergeLeft ==
  pc = "done" =>
    \A i \in 1..Len(routes) : \A j \in 1..Len(routes) :
      i # j =>
        routes[i].totalCapacity + routes[j].totalCapacity
          > boundVehicle(routes[i]).capacity

(* a result of two or more routes, one of them merged, with stops of       *)
(* positive demand in both                                                 *)
C9_Witness ==
  /\ pc = "done"
  /\ Len(routes) >= 2
  /\ \E r \in RouteSet : Len(r.stops) > 3
  /\ \A r \in RouteSet : r.totalCapacity > 0

(* no non-depot stop is in two routes or twice in one route                *)
NoStopTwice ==
  \A i \in 1..Len(routes) : \A j \in 1..Len(routes) :
    \A k \in 2..(Len(routes[i].stops) - 1) :
      \A l \in 2..(Len(routes[j].stops) - 1) :
        routes[i].stops[k].locationId = routes[j].stops[l].locationId
          => (i = j /\ k = l)

(* C10: every step leaves each non-depot stop in at most one route, once;  *)
(* a build step adds at most the stop it works on; a merge step keeps the  *)
(* set of routed stops and either leaves the routes alone or makes them    *)
(* one fewer; the routes returned are the routes the last step left.       *)
C10_MergeKeepsStops ==
  [][/\ NoStopTwice'
     /\ pc = "build" =>
          /\ RoutedStops \subseteq RoutedStops'
          /\ RoutedStops' \subseteq
               RoutedStops \cup {nonDepotLocations[locCursor]._id}
     /\ pc = "merge" =>
          /\ RoutedStops' = RoutedStops
          /\ routes' # routes => Len(routes') = Len(routes) - 1
     /\ pc = "return" => routes' = routes]_vars

(* three stops merged into one returned route                              *)
C10_Witness ==
  /\ pc = "done"
  /\ Len(routes) = 1
  /\ Cardinality(RoutedStops) = 3

====
